---- MODULE Spec2Model ----
(***************************************************************************)
(* Model of the series resolver of the economic metrics dashboard          *)
(* (src/utils.py: get_real_data and its helpers) and of the change summary *)
(* (src/app.py: calculate_change).                                         *)
(*                                                                         *)
(* A pandas Series is a record [kind, pts]: kind is the type of its index  *)
(* ("DatetimeIndex", or "Index" for the object index of a series built     *)
(* from no data) and pts is the sequence of its points [t, v], t a day     *)
(* number and v a float.  Python's None and a raised exception are records *)
(* of the same shape (kind "None", kind "Raise").  The external providers  *)
(* are opaque: a world maps every series identifier and ticker to what the *)
(* provider answers for it, a series or an exception.                      *)
(***************************************************************************)
EXTENDS Integers, Sequences, FiniteSets, TLC

VARIABLES provider, metric_name, days, result, series, change

vars == <<provider, metric_name, days, result, series, change>>

(***************************************************************************)
(* Floats.  A float is NaN, an infinity, or a finite number kept as an     *)
(* exact fraction n/d in lowest terms (rounding is not modelled; negative  *)
(* zero is not distinguished from zero).  NotNumeric is a value float()    *)
(* rejects; NoneFloat is Python's None where a float is expected.          *)
(***************************************************************************)
RECURSIVE GCD(_, _)
GCD(a, b) == IF b = 0 THEN a ELSE GCD(b, a % b)

Abs(x) == IF x < 0 THEN -x ELSE x

Sign(x) == IF x < 0 THEN -1 ELSE IF x > 0 THEN 1 ELSE 0

Norm(n, d) ==
    LET g == GCD(Abs(n), Abs(d))
        s == IF d < 0 THEN -1 ELSE 1
    IN  [k |-> "num", n |-> s * (n \div g), d |-> s * (d \div g)]

Num(x) == [k |-> "num", n |-> x, d |-> 1]

NaN == [k |-> "nan", n |-> 0, d |-> 0]

Inf(s) == [k |-> "inf", n |-> s, d |-> 0]

NotNumeric == [k |-> "str", n |-> 0, d |-> 0]

NoneFloat == [k |-> "None", n |-> 0, d |-> 0]

isna(x) == x.k = "nan"

IsZero(x) == x.k = "num" /\ x.n = 0

\* a - b
FSub(a, b) ==
    IF isna(a) \/ isna(b) THEN NaN
    ELSE IF a.k = "inf" /\ b.k = "inf" THEN (IF a.n = b.n THEN NaN ELSE a)
    ELSE IF a.k = "inf" THEN a
    ELSE IF b.k = "inf" THEN Inf(-b.n)
    ELSE Norm(a.n * b.d - b.n * a.d, a.d * b.d)

\* a * b
FMul(a, b) ==
    IF isna(a) \/ isna(b) THEN NaN
    ELSE IF a.k = "inf" \/ b.k = "inf"
         THEN (IF IsZero(a) \/ IsZero(b) THEN NaN ELSE Inf(Sign(a.n) * Sign(b.n)))
    ELSE Norm(a.n * b.n, a.d * b.d)

\* a / b as numpy divides the values of two Series: no exception, x/0 is an
\* infinity and 0/0 is NaN
FDiv(a, b) ==
    IF isna(a) \/ isna(b) THEN NaN
    ELSE IF a.k = "inf" /\ b.k = "inf" THEN NaN
    ELSE IF a.k = "inf" THEN Inf(IF Sign(b.n) < 0 THEN -a.n ELSE a.n)
    ELSE IF b.k = "inf" THEN Num(0)
    ELSE IF b.n = 0 THEN (IF a.n = 0 THEN NaN ELSE Inf(Sign(a.n)))
    ELSE Norm(a.n * b.d, a.d * b.n)

(***************************************************************************)
(* Series, None and exceptions.                                            *)
(***************************************************************************)
Series(kind, pts) == [kind |-> kind, pts |-> pts, exc |-> ""]

None == [kind |-> "None", pts |-> <<>>, exc |-> ""]

Raise(e) == [kind |-> "Raise", pts |-> <<>>, exc |-> e]

IsSeries(x) == x.kind \in {"DatetimeIndex", "Index"}

Point(t, v) == [t |-> t, v |-> v]

\* the periods of pct_change, one year of the daily grid
YoYPeriods == 365

(***************************************************************************)
(* pandas operations on series.  The timestamps of a series are strictly   *)
(* increasing day numbers, as the providers deliver them.                  *)
(***************************************************************************)
Max(S) == CHOOSE x \in S : \A y \in S : y <= x

Times(pts) == {pts[i].t : i \in 1..Len(pts)}

\* the sequence of the elements of a finite set of integers, ascending
Sorted(S) == [i \in 1..Cardinality(S) |->
                 CHOOSE t \in S : Cardinality({u \in S : u < t}) = i - 1]

\* the value of pts at timestamp t, NaN where pts has no such timestamp
ValueAt(pts, t) ==
    IF t \in Times(pts)
    THEN pts[CHOOSE i \in 1..Len(pts) : pts[i].t = t].v
    ELSE NaN

\* Series.fillna(method='ffill'): a NaN takes the last value before it that
\* is not NaN; leading NaNs stay
ffill(pts) ==
    [i \in 1..Len(pts) |->
        IF ~isna(pts[i].v) THEN pts[i]
        ELSE LET known == {j \in 1..i : ~isna(pts[j].v)}
             IN  IF known = {} THEN pts[i]
                 ELSE Point(pts[i].t, pts[Max(known)].v)]

\* the index of two series aligned for arithmetic: the sorted union
UnionKind(a, b) == IF a.kind = b.kind THEN a.kind ELSE "Index"

UnionTimes(a, b) == Sorted(Times(a.pts) \cup Times(b.pts))

\* numerator.div(denominator)
div(a, b) ==
    LET ts == UnionTimes(a, b)
    IN  Series(UnionKind(a, b),
               [i \in 1..Len(ts) |->
                   Point(ts[i], FDiv(ValueAt(a.pts, ts[i]), ValueAt(b.pts, ts[i])))])

\* baa - treasury
sub(a, b) ==
    LET ts == UnionTimes(a, b)
    IN  Series(UnionKind(a, b),
               [i \in 1..Len(ts) |->
                   Point(ts[i], FSub(ValueAt(a.pts, ts[i]), ValueAt(b.pts, ts[i])))])

\* the position of the last point of pts at or before day g, searched
\* downwards from j (no point after position g - t0 + 1 can be at or before g)
RECURSIVE LastAtOrBefore(_, _, _)
LastAtOrBefore(pts, g, j) ==
    IF pts[j].t <= g THEN j ELSE LastAtOrBefore(pts, g, j - 1)

\* data.asfreq('D', method='ffill'): one point per day from the first to the
\* last timestamp, each with the value of the last point at or before it.
\* A series with no points and no DatetimeIndex cannot be given a frequency.
asfreq_D_ffill(data) ==
    IF Len(data.pts) = 0
    THEN IF data.kind = "DatetimeIndex" THEN data ELSE Raise("TypeError")
    ELSE LET pts == data.pts
             t0  == pts[1].t
             n   == pts[Len(pts)].t - t0 + 1
         IN  Series("DatetimeIndex",
                    [i \in 1..n |->
                        LET g == t0 + i - 1
                            j == LastAtOrBefore(pts, g, IF i < Len(pts) THEN i ELSE Len(pts))
                        IN  Point(g, pts[j].v)])

\* mutant of pct_change_x100: the ratio to the value a year before, without "- 1"
pct_change_ratio(daily, periods) ==
    Series(daily.kind,
           [i \in 1..Len(daily.pts) |->
               Point(daily.pts[i].t,
                     IF i <= periods THEN NaN
                     ELSE FMul(FDiv(daily.pts[i].v, daily.pts[i - periods].v), Num(100)))])

\* daily_data.pct_change(periods) * 100
pct_change_x100(daily, periods) ==
    Series(daily.kind,
           [i \in 1..Len(daily.pts) |->
               Point(daily.pts[i].t,
                     IF i <= periods THEN NaN
                     ELSE FMul(FSub(FDiv(daily.pts[i].v, daily.pts[i - periods].v),
                                    Num(1)),
                               Num(100)))])

\* mutant of iloc_last: s.iloc[-n-1:], one point too many
iloc_last_off_by_one(s, n) ==
    IF Len(s.pts) > n + 1
    THEN Series(s.kind, SubSeq(s.pts, Len(s.pts) - n, Len(s.pts)))
    ELSE s

\* s.iloc[-n:], n >= 1
iloc_last(s, n) ==
    IF Len(s.pts) > n
    THEN Series(s.kind, SubSeq(s.pts, Len(s.pts) - n + 1, Len(s.pts)))
    ELSE s

(***************************************************************************)
(* src/utils.py                                                            *)
(***************************************************************************)
\* mutant of except_Exception: the handlers catch ValueError only
except_ValueError(outcome, value) ==
    IF outcome.kind = "Raise" /\ outcome.exc = "ValueError" THEN value ELSE outcome

\* the handler every function of utils.py ends with:
\*     except Exception as e: print(...); return <value>
except_Exception(outcome, value) ==
    IF outcome.kind = "Raise" THEN value ELSE outcome

\* fred.get_series and yf.download(...)['Close']: what the provider answers
fred_get_series(w, series_id) == w[series_id]

yf_download_Close(w, ticker) == w[ticker]

\* mutant of calculate_yoy_growth: pct_change(periods=1), day over day
calculate_dod_growth(data) ==
    except_Exception(
        LET daily_data == asfreq_D_ffill(data)
        IN  IF daily_data.kind = "Raise" THEN daily_data
            ELSE pct_change_x100(daily_data, 1),
        None)

calculate_yoy_growth(data) ==
    except_Exception(
        LET daily_data == asfreq_D_ffill(data)
        IN  IF daily_data.kind = "Raise" THEN daily_data
            ELSE pct_change_x100(daily_data, YoYPeriods),
        None)

\* mutant of get_fred_data: a series with no data is turned into None
get_fred_data_or_None(w, series_id, d) ==
    except_Exception(
        LET data == fred_get_series(w, series_id)
        IN  IF data.kind = "Raise" THEN data
            ELSE IF Len(data.pts) = 0 THEN None
            ELSE Series(data.kind, ffill(data.pts)),
        None)

get_fred_data(w, series_id, d) ==
    except_Exception(
        LET data == fred_get_series(w, series_id)
        IN  IF data.kind = "Raise" THEN data
            ELSE Series(data.kind, ffill(data.pts)),
        None)

get_ratio_data(w, numerator_ticker, denominator_ticker, d) ==
    except_Exception(
        LET numerator   == yf_download_Close(w, numerator_ticker)
            denominator == yf_download_Close(w, denominator_ticker)
        IN  IF numerator.kind = "Raise" THEN numerator
            ELSE IF denominator.kind = "Raise" THEN denominator
            ELSE LET ratio == div(numerator, denominator)
                 IN  Series(ratio.kind, ffill(ratio.pts)),
        None)

get_market_data(w, ticker, d) ==
    except_Exception(
        LET data == yf_download_Close(w, ticker)
        IN  IF data.kind = "Raise" THEN data
            ELSE Series(data.kind, ffill(data.pts)),
        None)

\* mutant of credit_spread: the series that was fetched stands in for the spread
credit_spread_partial(baa, treasury) ==
    IF baa.kind = "Raise" THEN baa
    ELSE IF treasury.kind = "Raise" THEN treasury
    ELSE IF baa # None /\ treasury # None
         THEN LET spread == sub(baa, treasury)
              IN  Series(spread.kind, ffill(spread.pts))
         ELSE IF baa # None THEN baa ELSE treasury

\* the "Credit Spread" branch, after its two fetches
credit_spread(baa, treasury) ==
    IF baa.kind = "Raise" THEN baa
    ELSE IF treasury.kind = "Raise" THEN treasury
    ELSE IF baa # None /\ treasury # None
         THEN LET spread == sub(baa, treasury)
              IN  Series(spread.kind, ffill(spread.pts))
         ELSE None

\* mutant of default_branch: only the Market metrics read the S&P 500
default_branch_market_only(w, name, d) ==
    IF name \in {"AAII Investor Sentiment Survey", "NAAIM Manager Sentiment",
                 "Put/Call Ratio", "CFTC Commitments of Traders", "Market Breadth",
                 "Sector Relative Strength"}
    THEN get_market_data(w, "^GSPC", d)
    ELSE None

\* the final else of the chain: any other name reads the S&P 500
default_branch(w, name, d) == get_market_data(w, "^GSPC", d)

\* the if/elif chain of get_real_data: the level series of a metric
dispatch(w, name, d) ==
    CASE name = "GDP Growth Rate"             -> get_fred_data(w, "GDPC1", d)
      [] name = "Non-Farm Payroll"            -> get_fred_data(w, "PAYEMS", d)
      [] name = "Employment Data"             -> get_fred_data(w, "ICSA", d)
      [] name = "Personal Finance"            -> get_fred_data(w, "PSAVERT", d)
      [] name = "Housing Sales"               -> get_fred_data(w, "HSN1F", d)
      [] name = "Auto Sales"                  -> get_fred_data(w, "TOTALSA", d)
      [] name = "Retail Sales"                -> get_fred_data(w, "RSXFS", d)
      [] name = "Manufacturing PMI"           -> get_fred_data(w, "NAPM", d)
      [] name = "Services PMI"                -> get_fred_data(w, "NMFCI", d)
      [] name = "Housing Supply"              -> get_fred_data(w, "PERMIT", d)
      [] name = "Manufacturing Orders"        -> get_fred_data(w, "DGORDER", d)
      [] name = "Weekly Economic Index (WEI)" -> get_fred_data(w, "WEI", d)
      [] name = "Copper/Gold Ratio"           -> get_ratio_data(w, "HG=F", "GC=F", d)
      [] name = "Oil/Gold Ratio"              -> get_ratio_data(w, "CL=F", "GC=F", d)
      [] name = "Key Interest Rates"          -> get_fred_data(w, "DFF", d)
      [] name = "Credit Spread"               ->
            credit_spread(get_fred_data(w, "BAA", d), get_fred_data(w, "DGS10", d))
      [] name = "VIX Index"                   -> get_market_data(w, "^VIX", d)
      [] OTHER                                -> default_branch(w, name, d)

\* what get_real_data gives its caller: a tuple, or an exception
Returned(level, growth) ==
    [kind |-> "tuple", level |-> level, growth |-> growth, exc |-> ""]

Raised(e) == [kind |-> "Raise", level |-> None, growth |-> None, exc |-> e]

\* mutant of postprocess: data = data.iloc[-days:] if len(data) > days else None
postprocess_level_lost(data, d) ==
    IF data.kind = "Raise" THEN Raised(data.exc)
    ELSE IF data # None
    THEN LET yoy_growth == calculate_yoy_growth(data)
         IN  IF yoy_growth.kind = "Raise" THEN Raised(yoy_growth.exc)
             ELSE Returned(IF Len(data.pts) > d THEN iloc_last(data, d) ELSE None,
                           IF yoy_growth # None THEN iloc_last(yoy_growth, d)
                           ELSE yoy_growth)
    ELSE Returned(None, None)

\* mutant of postprocess: the level series is resampled in place,
\* data = data.asfreq('D', method='ffill'), before the growth is computed
postprocess_resampled(data, d) ==
    IF data.kind = "Raise" THEN Raised(data.exc)
    ELSE IF data # None
    THEN LET daily      == except_Exception(asfreq_D_ffill(data), data)
             yoy_growth == calculate_yoy_growth(data)
         IN  IF yoy_growth.kind = "Raise" THEN Raised(yoy_growth.exc)
             ELSE Returned(iloc_last(daily, d),
                           IF yoy_growth # None THEN iloc_last(yoy_growth, d)
                           ELSE yoy_growth)
    ELSE Returned(None, None)

\* the tail of get_real_data, from "if data is not None"
postprocess(data, d) ==
    IF data.kind = "Raise" THEN Raised(data.exc)
    ELSE IF data # None
    THEN LET yoy_growth == calculate_yoy_growth(data)
         IN  IF yoy_growth.kind = "Raise" THEN Raised(yoy_growth.exc)
             ELSE Returned(iloc_last(data, d),
                           IF yoy_growth # None THEN iloc_last(yoy_growth, d)
                           ELSE yoy_growth)
    ELSE Returned(None, None)

get_real_data(w, name, d) ==
    except_Exception(postprocess(dispatch(w, name, d), d), Returned(None, None))

(***************************************************************************)
(* src/app.py                                                              *)
(***************************************************************************)
\* what calculate_change gives its caller: a float, None, or an exception
ChangeReturned(v) == [kind |-> "value", value |-> v, exc |-> ""]

ChangeRaised(e) == [kind |-> "Raise", value |-> NoneFloat, exc |-> e]

\* float(x)
float(x) == IF x.k = "str" THEN ChangeRaised("ValueError") ELSE ChangeReturned(x)

\* a / b on Python floats: a zero divisor raises
truediv(a, b) ==
    IF IsZero(b) THEN ChangeRaised("ZeroDivisionError")
    ELSE ChangeReturned(FDiv(a, b))

\* the try block of calculate_change and the "return None" after it
calculate_change_try(data) ==
    IF data.kind = "list" THEN ChangeReturned(NoneFloat)
    ELSE IF Len(data.pts) = 0 THEN ChangeRaised("IndexError")
    ELSE LET first_value == float(data.pts[1].v)
             last_value  == float(data.pts[Len(data.pts)].v)
         IN  IF first_value.kind = "Raise" THEN first_value
             ELSE IF last_value.kind = "Raise" THEN last_value
             ELSE IF isna(first_value.value) \/ isna(last_value.value)
                  THEN ChangeReturned(NoneFloat)
             ELSE LET q == truediv(FSub(last_value.value, first_value.value),
                                   first_value.value)
                  IN  IF q.kind = "Raise" THEN q
                      ELSE ChangeReturned(FMul(q.value, Num(100)))

\* except (TypeError, ValueError, AttributeError, IndexError)
CaughtByChange == {"TypeError", "ValueError", "AttributeError", "IndexError"}

calculate_change(data) ==
    LET r == calculate_change_try(data)
    IN  IF r.kind = "Raise" /\ r.exc \in CaughtByChange
        THEN ChangeReturned(NoneFloat)
        ELSE r

(***************************************************************************)
(* Bounds and inputs.                                                      *)
(***************************************************************************)
\* the window lengths tried: 1..MaxDays, and one year
MaxDays == 3

\* a sparse provider series has at most MaxPoints points
MaxPoints == 2

\* a gap-free daily provider series has YoYPeriods + 1 .. YoYPeriods + MaxExtra points
MaxExtra == 3

\* a series given to calculate_change has at most MaxLen points
MaxLen == 3

Days == (1..MaxDays) \cup {YoYPeriods}

FredIds == {"GDPC1", "PAYEMS", "ICSA", "PSAVERT", "HSN1F", "TOTALSA", "RSXFS",
            "NAPM", "NMFCI", "PERMIT", "DGORDER", "WEI", "DFF", "BAA", "DGS10"}

Tickers == {"HG=F", "GC=F", "CL=F", "^VIX", "^GSPC"}

Ids == FredIds \cup Tickers

\* the metric names of get_categories, and two names it does not have
CatalogNames ==
    {"GDP Growth Rate", "Non-Farm Payroll", "Employment Data", "Personal Finance",
     "Housing Sales", "Auto Sales", "Retail Sales",
     "Manufacturing PMI", "Services PMI", "Housing Supply", "Manufacturing Orders",
     "Weekly Economic Index (WEI)", "Copper/Gold Ratio", "Oil/Gold Ratio",
     "Key Interest Rates", "Credit Spread", "VIX Index",
     "AAII Investor Sentiment Survey", "NAAIM Manager Sentiment", "Put/Call Ratio",
     "CFTC Commitments of Traders", "Market Breadth", "Sector Relative Strength"}

MetricNames == CatalogNames \cup {"Some Unrecognized Metric Name", "vix index"}

ProviderValues == {NaN, Num(0), Num(2)}

SparseTimes == {0, 1, YoYPeriods + 1}

\* every series on at most MaxPoints of the days of T
SeriesOn(T) ==
    {Series("DatetimeIndex", [i \in 1..Cardinality(ts) |-> Point(Sorted(ts)[i], f[i])]) :
        <<ts, f>> \in UNION {{ts} \X [1..Cardinality(ts) -> ProviderValues] :
                        ts \in {x \in SUBSET T : x # {} /\ Cardinality(x) <= MaxPoints}}}

\* a gap-free daily series of n points from day 0: the constant 2.0, or 1, 2, 1, ...
DailyConstant(n) == Series("DatetimeIndex", [i \in 1..n |-> Point(i - 1, Num(2))])

DailyAlternating(n) == Series("DatetimeIndex", [i \in 1..n |-> Point(i - 1, Num(1 + (i % 2)))])

DailySeries ==
    UNION {{DailyConstant(YoYPeriods + e), DailyAlternating(YoYPeriods + e)} : e \in 1..MaxExtra}

\* a successful answer with no data: an empty series, with or without a DatetimeIndex
EmptySeries == {Series("DatetimeIndex", <<>>), Series("Index", <<>>)}

SingleAnswers == SeriesOn(SparseTimes) \cup DailySeries \cup EmptySeries

PairAnswers == SeriesOn({0, 1}) \cup {Series("DatetimeIndex", <<>>)}

\* the pairs of identifiers one metric reads
Pairs == {<<"BAA", "DGS10">>, <<"HG=F", "GC=F">>, <<"CL=F", "GC=F">>}

Unreachable == [id \in Ids |-> Raise("ConnectionError")]

\* the worlds: the provider fails for every identifier but one, or but one pair
Worlds ==
    {Unreachable}
    \cup {[Unreachable EXCEPT ![id] = a] : id \in Ids, a \in SingleAnswers}
    \cup {[Unreachable EXCEPT ![p[1]] = a, ![p[2]] = b] :
            p \in Pairs, a \in PairAnswers, b \in PairAnswers}

ChangeValues == {NaN, NotNumeric, Inf(1), Num(0), Num(100), Num(121)}

ChangeInputs ==
    UNION {{Series(kd, [i \in 1..n |-> Point(i - 1, f[i])]) : f \in [1..n -> ChangeValues]} :
             n \in 0..MaxLen, kd \in {"DatetimeIndex", "list"}}

(***************************************************************************)
(* The state machines.                                                     *)
(***************************************************************************)
NoCall == [kind |-> "none", level |-> None, growth |-> None, exc |-> ""]

NoChange == [kind |-> "none", value |-> NoneFloat, exc |-> ""]

\* the resolver: the providers are in some world; the dashboard resolves metrics
Init ==
    /\ provider \in Worlds
    /\ metric_name = ""
    /\ days = 0
    /\ result = NoCall
    /\ series = None
    /\ change = NoChange

\* data, yoy_data = get_real_data(metric, days); the resolver keeps no state
\* between calls, so a behaviour makes one call
Resolve(name, d) ==
    /\ result = NoCall
    /\ metric_name' = name
    /\ days' = d
    /\ result' = get_real_data(provider, name, d)
    /\ UNCHANGED <<provider, series, change>>

Next == \E name \in MetricNames, d \in Days : Resolve(name, d)

Spec == Init /\ [][Next]_vars

\* the change summary: calculate_change applied to a series
InitChange ==
    /\ provider = Unreachable
    /\ metric_name = ""
    /\ days = 0
    /\ result = NoCall
    /\ series \in ChangeInputs
    /\ change = NoChange

\* pct_change = calculate_change(data)
Change ==
    /\ change = NoChange
    /\ change' = calculate_change(series)
    /\ UNCHANGED <<provider, metric_name, days, result, series>>

NextChange == Change

SpecChange == InitChange /\ [][NextChange]_vars

(***************************************************************************)
(* The claims.                                                             *)
(***************************************************************************)
Called == result # NoCall

\* the level series the dispatch retrieved, before post-processing
Retrieved == dispatch(provider, metric_name, days)

NoneOrSeries(x) == x = None \/ IsSeries(x)

Present(x) == IsSeries(x) /\ Len(x.pts) > 0

Min(a, b) == IF a < b THEN a ELSE b

\* the names get_real_data special-cases
SpecialNames ==
    {"GDP Growth Rate", "Non-Farm Payroll", "Employment Data", "Personal Finance",
     "Housing Sales", "Auto Sales", "Retail Sales",
     "Manufacturing PMI", "Services PMI", "Housing Supply", "Manufacturing Orders",
     "Weekly Economic Index (WEI)", "Copper/Gold Ratio", "Oil/Gold Ratio",
     "Key Interest Rates", "Credit Spread", "VIX Index"}

\* the macro-series metrics and the one series each reads
MacroSeriesOf ==
    [name \in {"GDP Growth Rate", "Non-Farm Payroll", "Employment Data",
               "Personal Finance", "Housing Sales", "Auto Sales", "Retail Sales",
               "Manufacturing PMI", "Services PMI", "Housing Supply",
               "Manufacturing Orders", "Weekly Economic Index (WEI)",
               "Key Interest Rates"} |->
        CASE name = "GDP Growth Rate"             -> "GDPC1"
          [] name = "Non-Farm Payroll"            -> "PAYEMS"
          [] name = "Employment Data"             -> "ICSA"
          [] name = "Personal Finance"            -> "PSAVERT"
          [] name = "Housing Sales"               -> "HSN1F"
          [] name = "Auto Sales"                  -> "TOTALSA"
          [] name = "Retail Sales"                -> "RSXFS"
          [] name = "Manufacturing PMI"           -> "NAPM"
          [] name = "Services PMI"                -> "NMFCI"
          [] name = "Housing Supply"              -> "PERMIT"
          [] name = "Manufacturing Orders"        -> "DGORDER"
          [] name = "Weekly Economic Index (WEI)" -> "WEI"
          [] name = "Key Interest Rates"          -> "DFF"]

IsGapFreeDailyConstant(s, c) ==
    /\ Present(s)
    /\ \A i \in 1..Len(s.pts) : s.pts[i].t = s.pts[1].t + i - 1 /\ s.pts[i].v = c

\* C1: whatever the providers answer (a series, an empty series, an
\* exception), get_real_data raises nothing to its caller and returns a
\* 2-tuple (level, growth), each element a series or None.
C1_NeverRaises ==
    Called => /\ result.kind = "tuple"
              /\ NoneOrSeries(result.level)
              /\ NoneOrSeries(result.growth)

\* C1 witness: the provider raised on the fetch and the call returned (None, None)
C1_Witness ==
    /\ Called
    /\ metric_name = "Key Interest Rates"
    /\ provider["DFF"].kind = "Raise"
    /\ result = Returned(None, None)

\* C2 as stated: each element of a returned pair is a non-empty series or
\* None; a provider answering with zero data points gives an absent level.
C2_Original ==
    Called => /\ (result.level = None \/ Present(result.level))
              /\ (result.growth = None \/ Present(result.growth))

\* C2 amended: each element of a returned pair is a series or None, and a
\* series may be empty: the level is empty exactly when the retrieved series
\* is, a present growth is empty only when the level is, and a macro-series
\* or single-instrument fetch answered with zero data points gives a present,
\* empty level instead of None.
C2_EmptyIsPresent ==
    Called =>
        /\ NoneOrSeries(result.level)
        /\ NoneOrSeries(result.growth)
        /\ IsSeries(result.level) =>
              /\ IsSeries(Retrieved)
              /\ (Len(result.level.pts) = 0 <=> Len(Retrieved.pts) = 0)
        /\ IsSeries(result.growth) /\ Len(result.growth.pts) = 0 =>
              IsSeries(result.level) /\ Len(result.level.pts) = 0
        /\ metric_name \in DOMAIN MacroSeriesOf
             /\ provider[MacroSeriesOf[metric_name]] \in EmptySeries =>
              result.level = provider[MacroSeriesOf[metric_name]]
        /\ metric_name \notin SpecialNames /\ provider["^GSPC"] \in EmptySeries =>
              result.level = provider["^GSPC"]

\* C2 witness: a macro-series provider answered with no data and the level
\* returned is a present, empty series
C2_Witness ==
    /\ Called
    /\ metric_name = "Retail Sales"
    /\ provider["RSXFS"] \in EmptySeries
    /\ IsSeries(result.level)
    /\ Len(result.level.pts) = 0

\* C3: calculate_change returns None, raising nothing and returning no
\* infinity, whenever the series is empty, its first or last value is NaN,
\* or its first value is zero.
C3_AbsentChange ==
    change # NoChange
    /\ (\/ Len(series.pts) = 0
        \/ isna(series.pts[1].v)
        \/ isna(series.pts[Len(series.pts)].v)
        \/ IsZero(series.pts[1].v))
    => change = ChangeReturned(NoneFloat)

\* C4: for "Credit Spread", if either of the two fetches (BAA, DGS10) fails,
\* get_real_data returns (None, None), never a level built from one series.
C4_SpreadAllOrNothing ==
    Called /\ metric_name = "Credit Spread"
           /\ (provider["BAA"].kind = "Raise" \/ provider["DGS10"].kind = "Raise")
    => result = Returned(None, None)

\* C4 witness: the BAA fetch gave data, the DGS10 fetch failed
C4_Witness ==
    /\ Called
    /\ metric_name = "Credit Spread"
    /\ Present(provider["BAA"])
    /\ provider["DGS10"].kind = "Raise"
    /\ result = Returned(None, None)

\* C5: after get_real_data returns, for days >= 1, the level series has at
\* most days points and the growth series, when present, at most days points.
C5_Truncation ==
    Called =>
        /\ IsSeries(result.level) => Len(result.level.pts) <= days
        /\ IsSeries(result.growth) => Len(result.growth.pts) <= days

\* C5 witness: more points were retrieved than the window has, on a daily
\* grid longer than the window, and both series were cut to the window
C5_Witness ==
    /\ Called
    /\ IsSeries(Retrieved)
    /\ Len(Retrieved.pts) > days
    /\ IsSeries(result.level)
    /\ Len(result.level.pts) = days
    /\ IsSeries(result.growth)
    /\ Len(result.growth.pts) = days

\* C6: in every result, a level of None comes with a growth of None.
C6_NoGrowthWithoutLevel ==
    Called => (result.level = None => result.growth = None)

\* C6 witness: a ratio whose denominator fetch failed: no level, no growth
C6_Witness ==
    /\ Called
    /\ metric_name = "Copper/Gold Ratio"
    /\ Present(provider["HG=F"])
    /\ result.level = None
    /\ result.growth = None

\* C7 as stated: a present growth series has no point earlier than the
\* returned level series' first timestamp plus 365 days, a day of grid
\* rounding allowed.  Only points with a value are counted here; the points
\* of the index that hold NaN start earlier still.
C7_Original ==
    Called /\ IsSeries(result.growth) /\ Present(result.level) =>
        \A i \in 1..Len(result.growth.pts) :
            ~isna(result.growth.pts[i].v) =>
                result.growth.pts[i].t >= result.level.pts[1].t + YoYPeriods - 1

\* C7 amended: the timestamps of a present growth series lie within the date
\* range of the retrieved level series (before its truncation to the
\* window), and the growth has no value (only NaN) earlier than that
\* retrieved series' first timestamp plus 365 days.
C7_GrowthAfterFirstYear ==
    Called /\ IsSeries(result.growth) =>
        \A i \in 1..Len(result.growth.pts) :
            /\ Retrieved.pts[1].t <= result.growth.pts[i].t
            /\ result.growth.pts[i].t <= Retrieved.pts[Len(Retrieved.pts)].t
            /\ ~isna(result.growth.pts[i].v) =>
                  result.growth.pts[i].t >= Retrieved.pts[1].t + YoYPeriods

\* C7 witness: a growth series with a value in it
C7_Witness ==
    /\ Called
    /\ IsSeries(result.growth)
    /\ \E i \in 1..Len(result.growth.pts) : ~isna(result.growth.pts[i].v)

\* C8: a name that is none of the special-cased names (exact match) is
\* resolved as "Market Breadth" is, with the same result on the same provider
\* data and window.
C8_UnknownIsMarketBreadth ==
    Called /\ metric_name \notin SpecialNames =>
        result = get_real_data(provider, "Market Breadth", days)

\* C8 witness: an unrecognized name resolved to the S&P 500 series
C8_Witness ==
    /\ Called
    /\ metric_name = "Some Unrecognized Metric Name"
    /\ Present(provider["^GSPC"])
    /\ Present(result.level)

\* C9: for a macro-series metric whose provider answers with a gap-free
\* daily series of the constant 2.0 with at least days + 365 points, the
\* level is exactly days points, all 2.0, and the growth is 0 on every date
\* it shares with the level.
C9_ConstantScenario ==
    Called /\ metric_name \in DOMAIN MacroSeriesOf
           /\ IsGapFreeDailyConstant(provider[MacroSeriesOf[metric_name]], Num(2))
           /\ Len(provider[MacroSeriesOf[metric_name]].pts) >= days + YoYPeriods
    => /\ IsSeries(result.level)
       /\ Len(result.level.pts) = days
       /\ \A i \in 1..Len(result.level.pts) : result.level.pts[i].v = Num(2)
       /\ IsSeries(result.growth)
       /\ \A i \in 1..Len(result.growth.pts) :
             result.growth.pts[i].t \in Times(result.level.pts) =>
                 result.growth.pts[i].v = Num(0)

\* C9 witness: "Key Interest Rates" on such a series, three days of window
C9_Witness ==
    /\ Called
    /\ metric_name = "Key Interest Rates"
    /\ days = 3
    /\ IsGapFreeDailyConstant(provider["DFF"], Num(2))
    /\ Len(provider["DFF"].pts) >= days + YoYPeriods
    /\ Len(result.level.pts) = 3
    /\ Times(result.growth.pts) = Times(result.level.pts)
    /\ result.growth.pts[1].v = Num(0)

\* C10: a present level is exactly the last min(n, days) points of the
\* retrieved (ratio, spread) series of n points, timestamps and values: the
\* daily resampling behind the growth adds no point and changes no value.
C10_LevelOnlyTruncated ==
    Called /\ IsSeries(result.level) =>
        LET n == Len(Retrieved.pts)
            k == Min(n, days)
        IN  /\ IsSeries(Retrieved)
            /\ result.level.kind = Retrieved.kind
            /\ Len(result.level.pts) = k
            /\ \A i \in 1..k : result.level.pts[i] = Retrieved.pts[n - k + i]

\* C10 witness: a level with a gap of days between its two points, resampled
\* for a growth series that is present
C10_Witness ==
    /\ Called
    /\ IsSeries(result.level)
    /\ Len(result.level.pts) = 2
    /\ result.level.pts[2].t - result.level.pts[1].t > 1
    /\ IsSeries(result.growth)
    /\ Len(result.growth.pts) = 2

====
